---- MODULE Spec2Model ----
(***************************************************************************)
(* State-machine model of PitmanBmi (src/src/leakybucket/pitman_bmi.py).   *)
(*                                                                         *)
(* One PitmanBmi instance and the controller that drives it.  The          *)
(* instance is the set of attributes assigned so far (attrs, the keys of   *)
(* the Python instance dictionary) and their values.  Reading an           *)
(* attribute that is not in attrs raises AttributeError, as in Python.     *)
(* Every public method is one action; the outcome of the call (normal      *)
(* return or the exception raised) is recorded in `raised`, the returned   *)
(* value in `ret`, and the call itself in `call`.                          *)
(*                                                                         *)
(* Real numbers (numpy float64 in the code) are exact rationals <<n, d>>   *)
(* with d > 0 in lowest terms; IEEE rounding is not modelled.              *)
(***************************************************************************)
EXTENDS Integers, Sequences, FiniteSets, TLC

VARIABLES
    attrs,              \* names of the instance attributes assigned so far
    time_data,          \* self.time_data: the forcing time coordinate [s]
    precipitation,      \* self.precipitation: the forcing series
    timestep_size,      \* self.timestep_size
    current_timestep,   \* self.current_timestep
    end_timestep,       \* self.end_timestep
    storage,            \* self.storage
    discharge,          \* self.discharge
    leakiness,          \* self.leakiness
    dest,               \* the caller's destination buffer
    call,               \* the last call: [op, name, src]
    raised,             \* exception raised by the last call, or "none"
    ret                 \* value returned by the last call

vars == <<attrs, time_data, precipitation, timestep_size, current_timestep,
          end_timestep, storage, discharge, leakiness, dest, call, raised, ret>>

(***************************************************************************)
(* Bounds of the model.                                                    *)
(***************************************************************************)
MaxSteps == 3       \* longest forcing series
MaxBuf == 2         \* length of the caller's buffers
MaxStorage == 20    \* update is not followed once storage would exceed this

(***************************************************************************)
(* Rational arithmetic.                                                    *)
(***************************************************************************)
Abs(n) == IF n < 0 THEN -n ELSE n

RECURSIVE GCD(_, _)
GCD(a, b) == IF b = 0 THEN a ELSE GCD(b, a % b)

Norm(n, d) ==
    LET s == IF d < 0 THEN -1 ELSE 1
        g == GCD(Abs(n), Abs(d))
    IN  <<(s * n) \div g, (s * d) \div g>>

R(n) == <<n, 1>>
RAdd(a, b) == Norm(a[1] * b[2] + b[1] * a[2], a[2] * b[2])
RSub(a, b) == Norm(a[1] * b[2] - b[1] * a[2], a[2] * b[2])
RMul(a, b) == Norm(a[1] * b[1], a[2] * b[2])
RDiv(a, b) == Norm(a[1] * b[2], a[2] * b[1])
RLeq(a, b) == a[1] * b[2] <= b[1] * a[2]

(***************************************************************************)
(* Inputs.                                                                 *)
(***************************************************************************)
HoursPerDay == 24
SecondsPerHour == 3600

\* spacings of the time coordinate, in seconds
StepDurations == {43200, 86400}

\* time coordinates: at least two points, uniformly spaced
TimeGrids ==
    {[i \in 1..n |-> (i - 1) * d] : n \in 2..MaxSteps, d \in StepDurations}

\* precipitation flux values [kg m-2 s-1]; 1/8640 is 10 per day
PrValues == {R(0), <<1, 8640>>}

\* values a caller writes with set_value
SrcValues == {R(-2), R(5)}

\* source buffers: empty, one element, and full length with a different tail
SrcBuffers ==
    {<<>>}
    \cup {<<v>> : v \in SrcValues}
    \cup {[i \in 1..MaxBuf |-> IF i = 1 THEN v ELSE R(7)] : v \in SrcValues}

VarNames == {"storage", "discharge", "temperature"}

NoArgs(op) == [op |-> op, name |-> "", src |-> <<>>]

\* the attributes initialize assigns
InitAttrs ==
    {"config", "precipitation", "time_data", "timestep_size",
     "current_timestep", "end_timestep", "storage", "discharge",
     "PI", "AI", "ZMIN", "ZMAX", "ST", "SL", "FT", "GW", "R", "POW", "TL", "GL"}

\* the attributes update reads
UpdateReads ==
    {"current_timestep", "end_timestep", "storage", "precipitation",
     "timestep_size", "leakiness"}

(***************************************************************************)
(* The expressions of the code.                                            *)
(***************************************************************************)
\* (time_data.values[1] - time_data.values[0]) / np.timedelta64(1, "s")
TimestepSize(td) == R(td[2] - td[1])

\* faulty variant: the last time point is not counted
EndTimestepShort(td) == Len(td) - 1

\* self.time_data.size
EndTimestep(td) == Len(td)

\* precipitation.isel(time=current_timestep).to_numpy() * timestep_size
Inflow(pr, step, dt) == RMul(pr[step + 1], dt)

\* timestep_size / 24 / 3600
DayFraction(dt) == RDiv(RDiv(dt, R(HoursPerDay)), R(SecondsPerHour))

\* storage * leakiness
Leak(s, k) == RMul(s, k)

\* storage - discharge * (timestep_size / 24 / 3600)
Drain(s, q, dt) == RSub(s, RMul(q, DayFraction(dt)))

\* dest[:] = np.array(x)
Broadcast(buf, x) == [i \in DOMAIN buf |-> x]

Init ==
    /\ attrs = {}
    /\ time_data = <<>>
    /\ precipitation = <<>>
    /\ timestep_size = R(0)
    /\ current_timestep = 0
    /\ end_timestep = 0
    /\ storage = R(0)
    /\ discharge = R(0)
    /\ leakiness = R(0)
    /\ dest = [i \in 1..MaxBuf |-> R(0)]
    /\ call = NoArgs("__init__")
    /\ raised = "none"
    /\ ret = "None"

Initialized == InitAttrs \subseteq attrs

(***************************************************************************)
(* initialize(config_file), for a configuration that holds every key and a *)
(* forcing file whose time coordinate has at least two points.  The        *)
(* controller initializes an instance once.                                *)
(***************************************************************************)
Initialize ==
    /\ ~Initialized
    /\ \E td \in TimeGrids :
       \E pr \in [1..Len(td) -> PrValues] :
        /\ attrs' = attrs \cup InitAttrs
        /\ precipitation' = pr
        /\ time_data' = td
        /\ timestep_size' = TimestepSize(td)
        /\ current_timestep' = 0
        /\ end_timestep' = EndTimestep(td)
        /\ storage' = R(0)
        /\ discharge' = R(0)
        /\ call' = NoArgs("initialize")
        /\ raised' = "none"
        /\ ret' = "None"
        /\ UNCHANGED <<leakiness, dest>>

(***************************************************************************)
(* update().  The statements run in order; an AttributeError leaves the    *)
(* assignments made before it in place.  No statement of the class assigns *)
(* self.leakiness, so "leakiness" is never in attrs and line 76 raises.    *)
(***************************************************************************)
Update ==
    /\ call' = NoArgs("update")
    /\ ret' = "None"
    /\ UNCHANGED <<time_data, precipitation, timestep_size, end_timestep,
                   leakiness, dest, attrs>>
    /\ IF ~({"current_timestep", "end_timestep"} \subseteq attrs)
       THEN /\ raised' = "AttributeError"
            /\ UNCHANGED <<storage, discharge, current_timestep>>
       ELSE IF current_timestep < end_timestep
       THEN LET filled ==
                    RAdd(storage,
                         Inflow(precipitation, current_timestep, timestep_size))
            IN  /\ RLeq(filled, R(MaxStorage))
                /\ IF "leakiness" \notin attrs
                   THEN /\ storage' = filled
                        /\ raised' = "AttributeError"
                        /\ UNCHANGED <<discharge, current_timestep>>
                   ELSE /\ discharge' = Leak(filled, leakiness)
                        /\ storage' =
                               Drain(filled, Leak(filled, leakiness), timestep_size)
                        /\ current_timestep' = current_timestep + 1
                        /\ raised' = "none"
       ELSE /\ raised' = "none"
            /\ UNCHANGED <<storage, discharge, current_timestep>>

GetComponentName ==
    /\ call' = NoArgs("get_component_name")
    /\ raised' = "none"
    /\ ret' = "leakybucket"
    /\ UNCHANGED <<attrs, time_data, precipitation, timestep_size,
                   current_timestep, end_timestep, storage, discharge,
                   leakiness, dest>>

\* faulty variant of get_value: the discharge case reads self.storage
GetValueWrongField(name) ==
    /\ call' = [op |-> "get_value", name |-> name, src |-> <<>>]
    /\ UNCHANGED <<attrs, time_data, precipitation, timestep_size,
                   current_timestep, end_timestep, storage, discharge, leakiness>>
    /\ CASE name = "storage" ->
              IF "storage" \in attrs
              THEN /\ dest' = Broadcast(dest, storage)
                   /\ raised' = "none"
                   /\ ret' = "dest"
              ELSE /\ raised' = "AttributeError"
                   /\ UNCHANGED dest /\ ret' = "None"
         [] name = "discharge" ->
              IF {"storage", "timestep_size"} \subseteq attrs
              THEN /\ dest' = Broadcast(dest,
                                   RDiv(storage, DayFraction(timestep_size)))
                   /\ raised' = "none"
                   /\ ret' = "dest"
              ELSE /\ raised' = "AttributeError"
                   /\ UNCHANGED dest /\ ret' = "None"
         [] OTHER ->
              /\ raised' = "ValueError"
              /\ UNCHANGED dest /\ ret' = "None"

\* get_value(var_name, dest)
GetValue(name) ==
    /\ call' = [op |-> "get_value", name |-> name, src |-> <<>>]
    /\ UNCHANGED <<attrs, time_data, precipitation, timestep_size,
                   current_timestep, end_timestep, storage, discharge, leakiness>>
    /\ CASE name = "storage" ->
              IF "storage" \in attrs
              THEN /\ dest' = Broadcast(dest, storage)
                   /\ raised' = "none"
                   /\ ret' = "dest"
              ELSE /\ raised' = "AttributeError"
                   /\ UNCHANGED dest /\ ret' = "None"
         [] name = "discharge" ->
              IF {"discharge", "timestep_size"} \subseteq attrs
              THEN /\ dest' = Broadcast(dest,
                                   RDiv(discharge, DayFraction(timestep_size)))
                   /\ raised' = "none"
                   /\ ret' = "dest"
              ELSE /\ raised' = "AttributeError"
                   /\ UNCHANGED dest /\ ret' = "None"
         [] OTHER ->
              /\ raised' = "ValueError"
              /\ UNCHANGED dest /\ ret' = "None"

\* get_var_units(var_name)
GetVarUnits(name) ==
    /\ call' = [op |-> "get_var_units", name |-> name, src |-> <<>>]
    /\ UNCHANGED <<attrs, time_data, precipitation, timestep_size,
                   current_timestep, end_timestep, storage, discharge,
                   leakiness, dest>>
    /\ CASE name = "storage" -> raised' = "none" /\ ret' = "m"
         [] name = "discharge" -> raised' = "none" /\ ret' = "m d-1"
         [] OTHER -> raised' = "ValueError" /\ ret' = "None"

\* faulty variant of set_value: the default case returns without raising
SetValueSilent(name, src) ==
    /\ call' = [op |-> "set_value", name |-> name, src |-> src]
    /\ UNCHANGED <<time_data, precipitation, timestep_size, current_timestep,
                   end_timestep, discharge, leakiness, dest>>
    /\ IF name = "storage"
       THEN IF src = <<>>
            THEN /\ raised' = "IndexError"
                 /\ ret' = "None"
            /\ UNCHANGED <<storage, attrs>>
            ELSE /\ storage' = src[1]
                 /\ attrs' = attrs \cup {"storage"}
                 /\ raised' = "none"
                 /\ ret' = "None"
       ELSE /\ raised' = "none"
            /\ ret' = "None"
            /\ UNCHANGED <<storage, attrs>>

\* faulty variant of set_value: the storage case also assigns self.discharge
SetValueAlsoDischarge(name, src) ==
    /\ call' = [op |-> "set_value", name |-> name, src |-> src]
    /\ UNCHANGED <<time_data, precipitation, timestep_size, current_timestep,
                   end_timestep, leakiness, dest>>
    /\ IF name = "storage"
       THEN IF src = <<>>
            THEN /\ raised' = "IndexError"
                 /\ ret' = "None"
            /\ UNCHANGED <<storage, discharge, attrs>>
            ELSE /\ storage' = src[1]
                 /\ discharge' = src[1]
                 /\ attrs' = attrs \cup {"storage", "discharge"}
                 /\ raised' = "none"
                 /\ ret' = "None"
       ELSE /\ raised' = "ValueError"
            /\ ret' = "None"
            /\ UNCHANGED <<storage, discharge, attrs>>

\* set_value(var_name, src); src[0] of an empty array raises IndexError
SetValue(name, src) ==
    /\ call' = [op |-> "set_value", name |-> name, src |-> src]
    /\ UNCHANGED <<time_data, precipitation, timestep_size, current_timestep,
                   end_timestep, discharge, leakiness, dest>>
    /\ IF name = "storage"
       THEN IF src = <<>>
            THEN /\ raised' = "IndexError"
                 /\ ret' = "None"
            /\ UNCHANGED <<storage, attrs>>
            ELSE /\ storage' = src[1]
                 /\ attrs' = attrs \cup {"storage"}
                 /\ raised' = "none"
                 /\ ret' = "None"
       ELSE /\ raised' = "ValueError"
            /\ ret' = "None"
            /\ UNCHANGED <<storage, attrs>>

GetOutputVarNames ==
    /\ call' = NoArgs("get_output_var_names")
    /\ raised' = "none"
    /\ ret' = "(discharge,)"
    /\ UNCHANGED <<attrs, time_data, precipitation, timestep_size,
                   current_timestep, end_timestep, storage, discharge,
                   leakiness, dest>>

Next ==
    \/ Initialize
    \/ Update
    \/ GetComponentName
    \/ \E name \in VarNames : GetValue(name)
    \/ \E name \in VarNames : GetVarUnits(name)
    \/ \E name \in VarNames : \E src \in SrcBuffers : SetValue(name, src)
    \/ GetOutputVarNames

Spec == Init /\ [][Next]_vars

\* the controller keeps calling update
FairSpec == Spec /\ WF_vars(Update)

(***************************************************************************)
(* Properties.                                                             *)
(***************************************************************************)
SecondsPerDay == HoursPerDay * SecondsPerHour

\* step duration as a fraction of a day, dt / 86400
DtOverDay == RDiv(timestep_size, R(SecondsPerDay))

\* the forcing value indexed by the pre-step current_timestep
Forcing == precipitation[current_timestep + 1]

\* S + p*dt - (S + p*dt)*k*(dt/86400)
BalanceStorage(S, p, k) ==
    LET pre == RAdd(S, RMul(p, timestep_size))
    IN  RSub(pre, RMul(RMul(pre, k), DtOverDay))

\* (S + p*dt)*k
BalanceDischarge(S, p, k) == RMul(RAdd(S, RMul(p, timestep_size)), k)

AtEnd == current_timestep = end_timestep

\* C1: after initialize, update() increments current_timestep by exactly 1
\* while current_timestep < end_timestep; at current_timestep = end_timestep
\* it returns normally and leaves storage, discharge and current_timestep
\* unchanged.
C1_StepMonotonicity ==
    [][(Initialized /\ call'.op = "update") =>
          IF current_timestep < end_timestep
          THEN current_timestep' = current_timestep + 1
          ELSE /\ raised' = "none"
               /\ UNCHANGED <<storage, discharge, current_timestep>>]_vars

\* C2: one update() with current_timestep < end_timestep returns with
\* storage' = S + p*dt - (S + p*dt)*k*(dt/86400) and discharge' = (S + p*dt)*k,
\* p the forcing value at the pre-step current_timestep, k the leakiness.
C2_MassBalance ==
    [][(Initialized /\ call'.op = "update"
            /\ current_timestep < end_timestep) =>
          /\ raised' = "none"
          /\ storage' = BalanceStorage(storage, Forcing, leakiness)
          /\ discharge' = BalanceDischarge(storage, Forcing, leakiness)]_vars

\* C3: in every state after initialize, whatever calls were made (failing
\* ones included), 0 <= current_timestep <= end_timestep; right after
\* initialize current_timestep = 0 and end_timestep is the length of the
\* forcing time coordinate.
C3_StepRange ==
    /\ Initialized =>
          /\ 0 <= current_timestep
          /\ current_timestep <= end_timestep
    /\ call.op = "initialize" =>
          /\ current_timestep = 0
          /\ end_timestep = Len(time_data)
          /\ end_timestep = Len(precipitation)

\* an initialized instance on which updates and a failing set_value ran
C3_Witness ==
    /\ Initialized
    /\ call.op = "set_value"
    /\ raised = "ValueError"
    /\ storage # R(0)

\* C4: get_value and get_var_units with a name other than "storage" or
\* "discharge", and set_value with a name other than "storage", raise and
\* leave storage, discharge, current_timestep and the destination buffer as
\* they were.
C4_UnknownVariable ==
    [][(\/ /\ call'.op \in {"get_value", "get_var_units"}
           /\ call'.name \notin {"storage", "discharge"}
        \/ /\ call'.op = "set_value"
           /\ call'.name # "storage") =>
          /\ raised' = "ValueError"
          /\ UNCHANGED <<storage, discharge, current_timestep, dest>>]_vars

\* set_value("discharge", src) was refused on an instance whose storage and
\* destination buffer hold values other than the initial ones
C4_Witness ==
    /\ Initialized
    /\ call.op = "set_value"
    /\ call.name = "discharge"
    /\ call.src # <<>>
    /\ raised = "ValueError"
    /\ storage # R(0)
    /\ dest[1] # R(0)

\* C5: set_value("storage", [v, ...]) followed immediately by
\* get_value("storage", buf) yields buf[0] = v, and an update() right after
\* the set returns with storage' = (v + p*dt) - (v + p*dt)*k*(dt/86400).
C5_SetOverride ==
    [][/\ (call'.op = "set_value" /\ call'.name = "storage"
              /\ call'.src # <<>>) =>
             storage' = call'.src[1]
       /\ (call.op = "set_value" /\ call.name = "storage" /\ raised = "none") =>
             /\ (call'.op = "get_value" /\ call'.name = "storage") =>
                   /\ raised' = "none"
                   /\ dest'[1] = call.src[1]
             /\ (Initialized /\ call'.op = "update"
                     /\ current_timestep < end_timestep) =>
                   /\ raised' = "none"
                   /\ storage' =
                          BalanceStorage(call.src[1], Forcing, leakiness)]_vars

C7_Inputs ==
    /\ Initialized
    /\ time_data = <<0, SecondsPerDay, 2 * SecondsPerDay>>
    /\ precipitation = <<RDiv(R(10), R(SecondsPerDay)), R(0), R(0)>>

\* C7: in that scenario with leak coefficient 0.1 and storage 0, update()
\* gives discharge 1.0 and storage 9.0, then 0.9 and 8.1, then 0.81 and
\* 7.29, and the fourth call changes nothing.
C7_Scenario ==
    [][(C7_Inputs /\ call'.op = "update") =>
          /\ (current_timestep = 0 /\ storage = R(0)) =>
                (discharge' = R(1) /\ storage' = R(9))
          /\ (current_timestep = 1 /\ storage = R(9)) =>
                (discharge' = <<9, 10>> /\ storage' = <<81, 10>>)
          /\ (current_timestep = 2 /\ storage = <<81, 10>>) =>
                (discharge' = <<81, 100>> /\ storage' = <<729, 100>>)
          /\ current_timestep = 3 =>
                UNCHANGED <<storage, discharge, current_timestep>>]_vars

\* C8: a controller that keeps calling update() after initialize eventually
\* reaches current_timestep = end_timestep, and current_timestep stays equal
\* to end_timestep from then on.
C8_Termination ==
    /\ Initialized ~> AtEnd
    /\ [][(Initialized /\ AtEnd) => AtEnd']_vars

\* C9: get_value, get_var_units, get_output_var_names and get_component_name
\* change no field; set_value changes storage and nothing else; only update
\* changes discharge and current_timestep; nothing after initialize changes
\* end_timestep, timestep_size or the forcing series.
C9_Frame ==
    [][/\ call'.op \in {"get_value", "get_var_units", "get_output_var_names",
                        "get_component_name"} =>
             UNCHANGED <<attrs, time_data, precipitation, timestep_size,
                         current_timestep, end_timestep, storage, discharge,
                         leakiness>>
       /\ call'.op = "set_value" =>
             /\ UNCHANGED <<time_data, precipitation, timestep_size,
                            current_timestep, end_timestep, discharge,
                            leakiness>>
             /\ Initialized => UNCHANGED attrs
             /\ raised' # "none" => UNCHANGED storage
       /\ call'.op \notin {"update", "initialize"} =>
             UNCHANGED <<discharge, current_timestep>>
       /\ call'.op # "initialize" =>
             UNCHANGED <<end_timestep, timestep_size, precipitation,
                         time_data>>]_vars

\* set_value("storage", src) overwrote a storage that get_value had copied
\* to the destination buffer
C9_Witness ==
    /\ Initialized
    /\ call.op = "set_value"
    /\ call.name = "storage"
    /\ raised = "none"
    /\ dest[1] # R(0)
    /\ storage # dest[1]
    /\ discharge = R(0)

\* C10: initialize assigns every attribute update() reads, so after
\* initialize no update() fails on an unassigned attribute.
C10_InitializeAssignsAll ==
    /\ Initialized => UpdateReads \subseteq attrs
    /\ (Initialized /\ call.op = "update") => raised # "AttributeError"

====
